---- MODULE Spec2Model ----
(***************************************************************************)
(* Model of the pybind11 binding layer of python3-gpiod (c_src/).          *)
(*                                                                         *)
(*  - the std::bitset<32> type caster (type_cast.h) and the                *)
(*    line_request.flags property that uses it;                            *)
(*  - line_bulk.__iter__ with py::keep_alive<0, 1> (line_bulk_wrapper.h);  *)
(*  - the bound surface: default arguments and class-level constants of    *)
(*    the two binding definitions (the *_wrapper.h headers and gpiod.cpp). *)
(*                                                                         *)
(* Host integers are arbitrary-precision: a sign and a little-endian       *)
(* sequence of bits without leading zeros.  An unsigned long is a          *)
(* sequence of exactly ulongBits bits.  A std::bitset<32> is a function    *)
(* from 0..31 to BOOLEAN.                                                  *)
(***************************************************************************)
EXTENDS Integers, Sequences, FiniteSets, TLC

VARIABLES
    \* ---- bitset caster / line_request.flags
    ulongBits,   \* width of the platform's unsigned long
    src,         \* host value handed to the flags setter
    errIn,       \* host error indicator on entry to load
    flags,       \* gpiod::line_request::flags of the bound object
    loadRet,     \* result of the last type_caster::load
    value,       \* the caster's local 'value' after the last load
    err,         \* host error indicator after the last load
    steps,       \* C-API calls made by the last load, in order
    output,      \* host integer produced by the last cast
    op,          \* last host operation on the line_request
    before       \* flags of the line_request before the setter ran

varsF == <<ulongBits, src, errIn, flags, loadRet, value, err, steps, output, op,
           before>>

VARIABLES
    \* ---- line_bulk and its host iterator
    bulk,        \* lines held by the line_bulk, in order (empty once destroyed)
    bulkAlive,   \* the line_bulk object has not been destroyed
    bulkRefs,    \* host references to the line_bulk
    patients,    \* references to the line_bulk held for the iterator (keep_alive)
    iterAlive,   \* the iterator object exists
    iter,        \* pybind11 iterator state: it, end, first_or_done
    invalid,     \* the line_bulk was mutated since begin()/end() were taken
    yielded,     \* what the iterator has yielded so far
    stopped,     \* the last advance signalled end of iteration
    afterDrop,   \* an advance ran while no host reference to the line_bulk was left
    fromEmpty,   \* the line_bulk was constructed empty: its lines were appended
    uaf          \* an advance ran on a destroyed line_bulk

varsI == <<bulk, bulkAlive, bulkRefs, patients, iterAlive, iter, invalid,
           yielded, stopped, afterDrop, fromEmpty, uaf>>

VARIABLES
    \* ---- the bound surface
    binding,     \* which binding definition was built: the wrappers or gpiod.cpp
    v15,         \* LIBGPIODCXX_VERSION_CODE >= LIBGPIODCXX_VERSION(1, 5)
    classAttrs,  \* class-level constants: name -> how it is stored
    writes,      \* assignments to class attributes that took effect
    host,        \* the last host operation
    nativeCalls, \* native calls made by the last host operation, in order
    nativeOut,   \* outcome of the native call: "returned" or "fault"
    hostOut      \* outcome of the last host operation

varsB == <<binding, v15, classAttrs, writes, host, nativeCalls, nativeOut, hostOut>>

vars == <<varsF, varsI, varsB>>

-----------------------------------------------------------------------------
\* Bounds of the model

\* longest host integer drawn as an input, in bits (above 64: wider than any
\* unsigned long)
MaxBits == 66

\* most lines held by a line_bulk in the model
MaxLen == 3

\* most host references to one line_bulk
MaxRefs == 2

\* most assignments to class attributes that take effect
MaxWrites == 2

-----------------------------------------------------------------------------
\* Bit-level helpers

\* std::bitset<32>
BitsetWidth == 32

BitPos == 0 .. (BitsetWidth - 1)

\* widths of unsigned long on the supported Linux targets (ILP32, LP64)
ULongWidths == {32, 64}

\* width of unsigned long long, the parameter of bitset's converting constructor
ULLongBits == 64

\* bit i (0-based) of a little-endian bit sequence
BitOf(bits, i) == IF i + 1 <= Len(bits) THEN bits[i + 1] ELSE 0

\* n bits, all equal to b
Rep(n, b) == [i \in 1 .. n |-> b]

\* the bit sequence without its leading (most significant) zeros
RECURSIVE Normalize(_)
Normalize(bits) ==
    IF bits = <<>> THEN <<>>
    ELSE IF bits[Len(bits)] = 1 THEN bits
    ELSE Normalize(SubSeq(bits, 1, Len(bits) - 1))

\* zero-extension of an unsigned value to width w
ZeroExtend(bits, w) == [i \in 1 .. w |-> BitOf(bits, i - 1)]

-----------------------------------------------------------------------------
\* Host values

HostInt(neg, bits) == [kind |-> "int", neg |-> neg, bits |-> bits]

Zero == HostInt(FALSE, <<>>)

\* 2^n
PowerOfTwo(n) == Rep(n, 0) \o <<1>>

\* 2^n - 1
AllOnes(n) == Rep(n, 1)

\* magnitudes drawn as inputs: 2^n, 2^n - 1, 2^n - 2, 2^n + (2^32 - 1),
\* 2^n + 1, and 0101.. patterns, for every length up to MaxBits
Magnitudes ==
    {PowerOfTwo(n) : n \in 0 .. (MaxBits - 1)}
    \cup {AllOnes(n) : n \in 0 .. MaxBits}
    \cup {<<0>> \o AllOnes(n) : n \in 1 .. (MaxBits - 1)}
    \cup {AllOnes(BitsetWidth) \o PowerOfTwo(n) : n \in 0 .. (MaxBits - BitsetWidth - 1)}
    \cup {<<1>> \o PowerOfTwo(n) : n \in 0 .. (MaxBits - 2)}
    \cup {[i \in 1 .. n |-> IF i = n THEN 1 ELSE i % 2] : n \in 1 .. MaxBits}

HostInts ==
    {HostInt(FALSE, m) : m \in Magnitudes}
    \cup {HostInt(TRUE, m) : m \in Magnitudes \ {<<>>}}

\* values that are not integers: floats (given by their integral part), text
\* holding an integer literal, text holding none, and None
HostOthers ==
    {[kind |-> k, neg |-> n, bits |-> m] :
        k \in {"float", "numstr"}, n \in BOOLEAN,
        m \in {PowerOfTwo(3), AllOnes(BitsetWidth), PowerOfTwo(BitsetWidth)}}
    \cup {[kind |-> k, neg |-> FALSE, bits |-> <<>>] : k \in {"text", "none", "float", "numstr"}}

HostValues == HostInts \cup HostOthers

\* x is an integer in [0, 2^32 - 1]
InRange(x) == x.kind = "int" /\ ~x.neg /\ Len(x.bits) <= BitsetWidth

-----------------------------------------------------------------------------
\* CPython C-API, as used by the caster

\* PyNumber_Long: the integer, or NULL with an error set
PyNumber_Long(x) ==
    IF x.kind \in {"int", "float", "numstr"}
    THEN [ok |-> TRUE, obj |-> HostInt(x.neg /\ x.bits # <<>>, x.bits)]
    ELSE [ok |-> FALSE, obj |-> Zero]

\* PyLong_AsUnsignedLong: the value, or (unsigned long)-1 with OverflowError set
\* for a negative integer or one that does not fit
PyLong_AsUnsignedLong(n, w) ==
    IF n.neg \/ Len(n.bits) > w
    THEN [val |-> Rep(w, 1), raised |-> TRUE]
    ELSE [val |-> ZeroExtend(n.bits, w), raised |-> FALSE]

\* PyLong_FromUnsignedLong
PyLong_FromUnsignedLong(u) == HostInt(FALSE, Normalize(u))

-----------------------------------------------------------------------------
\* std::bitset<32>

\* a constructor that reads the bits one position too high
BitsetFromULL_Shifted(u) == [i \in BitPos |-> BitOf(u, i + 1) = 1]

\* bitset(unsigned long long val): the low 32 bits of val
BitsetFromULL(u) == [i \in BitPos |-> BitOf(u, i) = 1]

\* the int -1 converted to unsigned long long
MinusOneULL == Rep(ULLongBits, 1)

\* value == -1: -1 converts through bitset(unsigned long long)
BitsetEqMinusOne(b) == b = BitsetFromULL(MinusOneULL)

\* a to_ulong that loses the top element
to_ulong_Short(b, w) ==
    [i \in 1 .. w |-> IF i < BitsetWidth /\ b[i - 1] THEN 1 ELSE 0]

\* bitset::to_ulong()
to_ulong(b, w) == [i \in 1 .. w |-> IF i - 1 \in BitPos /\ b[i - 1] THEN 1 ELSE 0]

NoBits == [i \in BitPos |-> FALSE]

AllBits == [i \in BitPos |-> TRUE]

-----------------------------------------------------------------------------
\* type_caster<std::bitset<32>>

\* a load without the 'if(! tmp) return false' check: the default-constructed
\* value is handed on as a success
load_Unchecked(x, e, w) ==
    LET tmp == PyNumber_Long(x)
        r == PyLong_AsUnsignedLong(tmp.obj, w)
        v == IF tmp.ok THEN BitsetFromULL(ZeroExtend(r.val, ULLongBits)) ELSE NoBits
        pending == e \/ ~tmp.ok \/ r.raised
    IN [ret |-> ~(BitsetEqMinusOne(v) /\ ~pending),
        value |-> v,
        err |-> pending,
        steps |-> <<"PyNumber_Long", "PyLong_AsUnsignedLong", "Py_DECREF">>]

\* load(handle src, bool)
load(x, e, w) ==
    LET tmp == PyNumber_Long(x) IN
    IF ~tmp.ok
    THEN [ret |-> FALSE, value |-> NoBits, err |-> TRUE,
          steps |-> <<"PyNumber_Long">>]
    ELSE
        LET r == PyLong_AsUnsignedLong(tmp.obj, w)
            v == BitsetFromULL(ZeroExtend(r.val, ULLongBits))
            pending == e \/ r.raised
        IN [ret |-> ~(BitsetEqMinusOne(v) /\ ~pending),
            value |-> v,
            err |-> pending,
            steps |-> <<"PyNumber_Long", "PyLong_AsUnsignedLong", "Py_DECREF">>
                      \o (IF BitsetEqMinusOne(v) THEN <<"PyErr_Occurred">> ELSE <<>>)]

\* cast(std::bitset<32> src, return_value_policy, handle)
cast(b, w) == PyLong_FromUnsignedLong(to_ulong(b, w))

-----------------------------------------------------------------------------
\* line_request.flags (def_readwrite)

\* flags of a line_request before the call: as constructed, or as left by an
\* earlier assignment
FlagsBefore == {NoBits, BitsetFromULL(PowerOfTwo(3)), AllBits}

InitFlags ==
    /\ ulongBits \in ULongWidths
    /\ src \in HostValues
    /\ errIn \in BOOLEAN
    /\ flags \in FlagsBefore
    /\ before = flags
    /\ loadRet = FALSE
    /\ value = NoBits
    /\ err = errIn
    /\ steps = <<>>
    /\ output = Zero
    /\ op = "init"

\* host: req.flags = src.  The setter runs only when load succeeded.
SetFlags ==
    /\ op = "init"
    /\ LET r == load(src, errIn, ulongBits) IN
        /\ loadRet' = r.ret
        /\ value' = r.value
        /\ err' = r.err
        /\ steps' = r.steps
        /\ flags' = IF r.ret THEN r.value ELSE flags
    /\ op' = "set"
    /\ UNCHANGED <<ulongBits, src, errIn, output, before>>
    /\ UNCHANGED <<varsI, varsB>>

\* host: req.flags
GetFlags ==
    /\ op \in {"init", "set"}
    /\ output' = cast(flags, ulongBits)
    /\ op' = IF op = "set" THEN "setget" ELSE "get"
    /\ UNCHANGED <<ulongBits, src, errIn, flags, loadRet, value, err, steps, before>>
    /\ UNCHANGED <<varsI, varsB>>

NextFlags == SetFlags \/ GetFlags


-----------------------------------------------------------------------------
\* line_bulk (line_bulk_wrapper.h)

Lines == {"line0", "line1"}

\* what an advance through invalidated iterators or freed storage may read
Garbage == "garbage"

LineSeqs == UNION {[1 .. n -> Lines] : n \in 0 .. MaxLen}

NoIter == [it |-> 0, end |-> 0, first_or_done |-> TRUE]

\* no line_bulk has been constructed yet
IdleIter ==
    /\ bulk = <<>>
    /\ bulkAlive = FALSE
    /\ bulkRefs = 0
    /\ patients = 0
    /\ iterAlive = FALSE
    /\ iter = NoIter
    /\ invalid = FALSE
    /\ yielded = <<>>
    /\ stopped = FALSE
    /\ afterDrop = FALSE
    /\ fromEmpty = FALSE
    /\ uaf = FALSE

\* the reference count of the line_bulk object reaches zero: it is destroyed
Destroyed(refs, pats) == refs + pats = 0

\* an __iter__ bound without keep_alive
keep_alive_Missing(pats) == pats

\* py::keep_alive<0, 1>(): the returned iterator (nurse) holds a reference to
\* self (patient) until the iterator is destroyed
keep_alive(pats) == pats + 1

\* an advance that always increments first
advance_Skipping(s) ==
    LET it1 == s.it + 1 IN
    IF it1 = s.end
    THEN [it |-> it1, end |-> s.end, first_or_done |-> TRUE]
    ELSE [it |-> it1, end |-> s.end, first_or_done |-> FALSE]

\* __next__ of py::make_iterator(begin, end): increment unless this is the first
\* advance, then stop if it == end
advance(s) ==
    LET it1 == IF ~s.first_or_done THEN s.it + 1 ELSE s.it IN
    IF it1 = s.end
    THEN [it |-> it1, end |-> s.end, first_or_done |-> TRUE]
    ELSE [it |-> it1, end |-> s.end, first_or_done |-> FALSE]

\* *it: the line at position i, or whatever lies past the storage
deref(b, i) == IF i \in DOMAIN b THEN b[i] ELSE Garbage

\* line_bulk() and line_bulk(const std::vector<line> &)
Construct(ls) ==
    /\ ~bulkAlive /\ ~iterAlive
    /\ bulk' = ls
    /\ bulkAlive' = TRUE
    /\ bulkRefs' = 1
    /\ patients' = 0
    /\ iter' = NoIter
    /\ invalid' = FALSE
    /\ yielded' = <<>>
    /\ stopped' = FALSE
    /\ afterDrop' = FALSE
    /\ fromEmpty' = (ls = <<>>)
    /\ uaf' = FALSE
    /\ UNCHANGED iterAlive
    /\ UNCHANGED <<varsF, varsB>>

\* the host copies its reference to the line_bulk
AddRef ==
    /\ bulkAlive /\ bulkRefs > 0 /\ bulkRefs < MaxRefs
    /\ bulkRefs' = bulkRefs + 1
    /\ UNCHANGED <<bulk, bulkAlive, patients, iterAlive, iter, invalid, yielded,
                   stopped, afterDrop, uaf>>
    /\ UNCHANGED <<fromEmpty, varsF, varsB>>

\* the host drops one reference to the line_bulk
DropRef ==
    /\ bulkAlive /\ bulkRefs > 0
    /\ bulkRefs' = bulkRefs - 1
    /\ bulkAlive' = ~Destroyed(bulkRefs', patients)
    /\ bulk' = IF bulkAlive' THEN bulk ELSE <<>>
    /\ UNCHANGED <<patients, iterAlive, iter, invalid, yielded, stopped,
                   afterDrop, uaf>>
    /\ UNCHANGED <<fromEmpty, varsF, varsB>>

\* line_bulk.append(new_line)
append(l) ==
    /\ bulkAlive /\ bulkRefs > 0
    /\ Len(bulk) < MaxLen
    /\ bulk' = Append(bulk, l)
    /\ invalid' = (invalid \/ iterAlive)
    /\ UNCHANGED <<bulkAlive, bulkRefs, patients, iterAlive, iter, yielded,
                   stopped, afterDrop, uaf>>
    /\ UNCHANGED <<fromEmpty, varsF, varsB>>

\* line_bulk.clear()
clear ==
    /\ bulkAlive /\ bulkRefs > 0
    /\ bulk' = <<>>
    /\ invalid' = (invalid \/ iterAlive)
    /\ UNCHANGED <<bulkAlive, bulkRefs, patients, iterAlive, iter, yielded,
                   stopped, afterDrop, uaf>>
    /\ UNCHANGED <<fromEmpty, varsF, varsB>>

\* line_bulk.__iter__(): py::make_iterator(self.begin(), self.end()) with
\* py::keep_alive<0, 1>()
Iter ==
    /\ bulkAlive /\ bulkRefs > 0 /\ ~iterAlive
    /\ iterAlive' = TRUE
    /\ iter' = [it |-> 1, end |-> Len(bulk) + 1, first_or_done |-> TRUE]
    /\ patients' = keep_alive(patients)
    /\ invalid' = FALSE
    /\ yielded' = <<>>
    /\ stopped' = FALSE
    /\ afterDrop' = FALSE
    /\ UNCHANGED <<bulk, bulkAlive, bulkRefs, uaf>>
    /\ UNCHANGED <<fromEmpty, varsF, varsB>>

\* next(iterator) while begin()/end() are still valid
IterNext ==
    /\ iterAlive /\ bulkAlive /\ ~invalid
    /\ iter' = advance(iter)
    /\ stopped' = (iter'.it = iter'.end)
    /\ yielded' = IF stopped' THEN yielded ELSE Append(yielded, deref(bulk, iter'.it))
    /\ afterDrop' = (afterDrop \/ bulkRefs = 0)
    /\ UNCHANGED <<bulk, bulkAlive, bulkRefs, patients, iterAlive, invalid, uaf>>
    /\ UNCHANGED <<fromEmpty, varsF, varsB>>

\* next(iterator) through invalidated iterators or a destroyed line_bulk:
\* undefined behaviour, any outcome
IterNextWild ==
    /\ iterAlive /\ (~bulkAlive \/ invalid)
    /\ Len(yielded) <= MaxLen
    /\ iter' = advance(iter)
    /\ \E out \in Lines \cup {Garbage, "stop"} :
        /\ stopped' = (out = "stop")
        /\ yielded' = IF out = "stop" THEN yielded ELSE Append(yielded, out)
    /\ afterDrop' = (afterDrop \/ bulkRefs = 0)
    /\ uaf' = (uaf \/ ~bulkAlive)
    /\ UNCHANGED <<bulk, bulkAlive, bulkRefs, patients, iterAlive, invalid>>
    /\ UNCHANGED <<fromEmpty, varsF, varsB>>

\* the host drops the iterator: the iterator is destroyed and releases the
\* references held for it
DropIter ==
    /\ iterAlive
    /\ iterAlive' = FALSE
    /\ patients' = 0
    /\ bulkAlive' = (bulkAlive /\ ~Destroyed(bulkRefs, patients'))
    /\ bulk' = IF bulkAlive' THEN bulk ELSE <<>>
    /\ UNCHANGED <<bulkRefs, iter, invalid, yielded, stopped, afterDrop, uaf>>
    /\ UNCHANGED <<fromEmpty, varsF, varsB>>

NextIter ==
    \/ \E ls \in LineSeqs : Construct(ls)
    \/ AddRef
    \/ DropRef
    \/ \E l \in Lines : append(l)
    \/ clear
    \/ Iter
    \/ IterNext
    \/ IterNextWild
    \/ DropIter

-----------------------------------------------------------------------------
\* The bound surface (chip_wrapper.h, line_wrapper.h, line_bulk_wrapper.h,
\* line_request_wrapper.h, line_event_wrapper.h; and gpiod.cpp)

Bindings == {"wrappers", "gpiod_cpp"}

\* a host argument: its type and, for an int, its value (for a vector its
\* length; for an opaque object a number naming it)
V(t, v) == [t |-> t, v |-> v]

\* the native enumerators the constants are taken from
NativeEnum ==
    ("chip.OPEN_LOOKUP" :> 1) @@ ("chip.OPEN_BY_PATH" :> 2)
    @@ ("chip.OPEN_BY_NAME" :> 3) @@ ("chip.OPEN_BY_LABEL" :> 4)
    @@ ("chip.OPEN_BY_NUMBER" :> 5)
    @@ ("line_request.DIRECTION_AS_IS" :> 1) @@ ("line_request.DIRECTION_INPUT" :> 2)
    @@ ("line_request.DIRECTION_OUTPUT" :> 3)
    @@ ("line_request.EVENT_FALLING_EDGE" :> 4)
    @@ ("line_request.EVENT_RISING_EDGE" :> 5)
    @@ ("line_request.EVENT_BOTH_EDGES" :> 6)
    @@ ("line.DIRECTION_INPUT" :> 1) @@ ("line.DIRECTION_OUTPUT" :> 2)
    @@ ("line.ACTIVE_LOW" :> 1) @@ ("line.ACTIVE_HIGH" :> 2)
    @@ ("line.BIAS_AS_IS" :> 1) @@ ("line.BIAS_DISABLE" :> 2)
    @@ ("line.BIAS_PULL_UP" :> 3) @@ ("line.BIAS_PULL_DOWN" :> 4)
    @@ ("line_event.RISING_EDGE" :> 1) @@ ("line_event.FALLING_EDGE" :> 2)
    @@ ("line_bulk.MAX_LINES" :> 64)

\* one .def(...): the host name, the parameter types, the py::arg defaults of
\* the trailing parameters, the native target and the arguments its own C++
\* default arguments add, and whether it sits under '#if ... >= (1, 5)'
Def(name, params, defaults, cxx, gated) ==
    [name |-> name, params |-> params, defaults |-> defaults,
     native |-> name, cxx |-> cxx, gated |-> gated]

\* int(gpiod::chip::OPEN_LOOKUP)
OpenLookup == V("int", NativeEnum["chip.OPEN_LOOKUP"])

\* set_chip_class
ChipDefs ==
    << Def("chip.__init__", <<>>, <<>>, <<>>, FALSE),
       Def("chip.__init__", <<"str", "int">>, <<OpenLookup>>, <<>>, FALSE),
       Def("chip.open", <<"str", "int">>, <<OpenLookup>>, <<>>, FALSE),
       Def("chip.reset", <<>>, <<>>, <<>>, FALSE),
       Def("chip.name", <<>>, <<>>, <<>>, FALSE),
       Def("chip.label", <<>>, <<>>, <<>>, FALSE),
       Def("chip.num_lines", <<>>, <<>>, <<>>, FALSE),
       Def("chip.get_line", <<"int">>, <<>>, <<>>, FALSE),
       Def("chip.find_line", <<"str">>, <<>>, <<>>, FALSE),
       Def("chip.get_lines", <<"ints">>, <<>>, <<>>, FALSE),
       Def("chip.get_all_lines", <<>>, <<>>, <<>>, FALSE),
       Def("chip.find_lines", <<"strs">>, <<>>, <<>>, FALSE) >>

\* set_line_class
LineDefs ==
    << Def("line.__init__", <<>>, <<>>, <<>>, FALSE),
       Def("line.offset", <<>>, <<>>, <<>>, FALSE),
       Def("line.name", <<>>, <<>>, <<>>, FALSE),
       Def("line.consumer", <<>>, <<>>, <<>>, FALSE),
       Def("line.direction", <<>>, <<>>, <<>>, FALSE),
       Def("line.active_state", <<>>, <<>>, <<>>, FALSE),
       Def("line.bias", <<>>, <<>>, <<>>, TRUE),
       Def("line.is_used", <<>>, <<>>, <<>>, FALSE),
       Def("line.is_open_drain", <<>>, <<>>, <<>>, FALSE),
       Def("line.is_open_source", <<>>, <<>>, <<>>, FALSE),
       Def("line.request", <<"config", "int">>, <<V("int", 0)>>, <<>>, FALSE),
       Def("line.release", <<>>, <<>>, <<>>, FALSE),
       Def("line.is_requested", <<>>, <<>>, <<>>, FALSE),
       Def("line.get_value", <<>>, <<>>, <<>>, FALSE),
       Def("line.set_value", <<"int">>, <<>>, <<>>, FALSE),
       Def("line.set_config", <<"int", "flags", "int">>, <<V("int", 0)>>, <<>>, TRUE),
       Def("line.set_flags", <<"flags">>, <<>>, <<>>, TRUE),
       Def("line.set_direction_input", <<>>, <<>>, <<>>, TRUE),
       Def("line.set_direction_output", <<"int">>, <<V("int", 0)>>, <<>>, TRUE),
       Def("line.event_wait", <<"duration">>, <<>>, <<>>, FALSE),
       Def("line.event_read", <<>>, <<>>, <<>>, FALSE),
       Def("line.event_read_multiple", <<>>, <<>>, <<>>, TRUE),
       Def("line.event_get_fd", <<>>, <<>>, <<>>, FALSE),
       Def("line.get_chip", <<>>, <<>>, <<>>, FALSE),
       Def("line.update", <<>>, <<>>, <<>>, TRUE),
       Def("line.reset", <<>>, <<>>, <<>>, FALSE) >>

\* set_line_bulk_class
LineBulkDefs ==
    << Def("line_bulk.__init__", <<>>, <<>>, <<>>, FALSE),
       Def("line_bulk.__init__", <<"lines">>, <<>>, <<>>, FALSE),
       Def("line_bulk.append", <<"line">>, <<>>, <<>>, FALSE),
       Def("line_bulk.get", <<"int">>, <<>>, <<>>, FALSE),
       Def("line_bulk.size", <<>>, <<>>, <<>>, FALSE),
       Def("line_bulk.empty", <<>>, <<>>, <<>>, FALSE),
       Def("line_bulk.clear", <<>>, <<>>, <<>>, FALSE),
       Def("line_bulk.request", <<"config", "ints">>, <<V("ints", 0)>>, <<>>, FALSE),
       Def("line_bulk.release", <<>>, <<>>, <<>>, FALSE),
       Def("line_bulk.get_values", <<>>, <<>>, <<>>, FALSE),
       Def("line_bulk.set_values", <<"ints">>, <<>>, <<>>, FALSE),
       Def("line_bulk.event_wait", <<"duration">>, <<>>, <<>>, FALSE) >>

\* set_line_request_class, set_line_event_class
RecordDefs ==
    << Def("line_request.__init__", <<>>, <<>>, <<>>, FALSE),
       Def("line_event.__init__", <<>>, <<>>, <<>>, FALSE) >>

\* PYBIND11_MODULE(_gpiod, m) of gpiod.cpp.  py::init<const std::string &>()
\* calls gpiod::chip(device), whose second parameter takes the native default
\* 'how = OPEN_LOOKUP'.
GpiodCppDefs ==
    << Def("chip.__init__", <<>>, <<>>, <<>>, FALSE),
       Def("chip.__init__", <<"str">>, <<>>, <<OpenLookup>>, FALSE),
       Def("chip.__init__", <<"str", "int">>, <<>>, <<>>, FALSE),
       Def("chip.open", <<"str", "int">>, <<OpenLookup>>, <<>>, FALSE),
       Def("chip.reset", <<>>, <<>>, <<>>, FALSE),
       Def("chip.name", <<>>, <<>>, <<>>, FALSE),
       Def("chip.label", <<>>, <<>>, <<>>, FALSE),
       Def("chip.num_lines", <<>>, <<>>, <<>>, FALSE),
       Def("chip.get_line", <<"int">>, <<>>, <<>>, FALSE),
       Def("chip.find_line", <<"str">>, <<>>, <<>>, FALSE),
       Def("line_request.__init__", <<>>, <<>>, <<>>, FALSE),
       Def("line.__init__", <<>>, <<>>, <<>>, FALSE),
       Def("line.offset", <<>>, <<>>, <<>>, FALSE),
       Def("line.name", <<>>, <<>>, <<>>, FALSE),
       Def("line.consumer", <<>>, <<>>, <<>>, FALSE),
       Def("line.direction", <<>>, <<>>, <<>>, FALSE),
       Def("line.active_state", <<>>, <<>>, <<>>, FALSE),
       Def("line.is_used", <<>>, <<>>, <<>>, FALSE),
       Def("line.is_open_drain", <<>>, <<>>, <<>>, FALSE),
       Def("line.is_open_source", <<>>, <<>>, <<>>, FALSE),
       Def("line.request", <<"config", "int">>, <<V("int", 0)>>, <<>>, FALSE),
       Def("line.release", <<>>, <<>>, <<>>, FALSE),
       Def("line.is_requested", <<>>, <<>>, <<>>, FALSE),
       Def("line.get_value", <<>>, <<>>, <<>>, FALSE),
       Def("line.set_value", <<"int">>, <<>>, <<>>, FALSE),
       Def("line.event_wait", <<"duration">>, <<>>, <<>>, FALSE),
       Def("line.event_read", <<>>, <<>>, <<>>, FALSE),
       Def("line.event_get_fd", <<>>, <<>>, <<>>, FALSE),
       Def("line.get_chip", <<>>, <<>>, <<>>, FALSE),
       Def("line.reset", <<>>, <<>>, <<>>, FALSE),
       Def("find_line", <<"str">>, <<>>, <<>>, FALSE),
       Def("line_event.__init__", <<>>, <<>>, <<>>, FALSE) >>

WrapperDefs == ChipDefs \o LineDefs \o LineBulkDefs \o RecordDefs

\* a build in which the '#if' lines have no effect
Surface_Unfiltered(b, v) ==
    IF b = "gpiod_cpp" THEN GpiodCppDefs ELSE WrapperDefs

\* the definitions compiled into a build, in definition order
Surface(b, v) ==
    IF b = "gpiod_cpp" THEN GpiodCppDefs
    ELSE SelectSeq(WrapperDefs, LAMBDA d : d.gated => v)

\* every definition of either binding
AllDefs == WrapperDefs \o GpiodCppDefs

\* what the host passes for a parameter of type t (a flags parameter takes a
\* host int, through the bitset caster)
Dom(t) ==
    CASE t \in {"int", "flags"} -> {V("int", 0), V("int", 1), V("int", 3)}
      [] t = "ints" -> {V("ints", 0), V("ints", 2)}
      [] OTHER -> {V(t, 1)}

RECURSIVE ArgLists(_)
ArgLists(params) ==
    IF params = <<>> THEN {<<>>}
    ELSE {<<a>> \o r : a \in Dom(Head(params)), r \in ArgLists(Tail(params))}

\* host calls aimed at the definition d: well-typed argument lists with every
\* number of trailing arguments left out (one more than the defaults allow
\* included), one argument too many, and a last argument of a wrong type
CallsOf(d) ==
    LET n == Len(d.params)
        req == n - Len(d.defaults)
        low == IF req > 0 THEN req - 1 ELSE 0
        full == ArgLists(d.params)
    IN {[name |-> d.name, args |-> a] :
            a \in UNION {ArgLists(SubSeq(d.params, 1, k)) : k \in low .. n}}
       \cup {[name |-> d.name, args |-> a \o <<V("int", 0)>>] : a \in full}
       \cup {[name |-> d.name, args |-> [a EXCEPT ![n] = V("none", 0)]] :
                a \in {x \in full : n > 0}}

HostCalls == UNION {CallsOf(AllDefs[i]) : i \in DOMAIN AllDefs}

\* the argument caster of a parameter of type t accepts a
Converts(a, t) == a.t = t \/ (t = "flags" /\ a.t = "int")

\* d can be called with args: enough of them, not too many, each convertible
Accepts(d, args) ==
    /\ Len(d.params) - Len(d.defaults) <= Len(args)
    /\ Len(args) <= Len(d.params)
    /\ \A i \in 1 .. Len(args) : Converts(args[i], d.params[i])

\* a dispatcher that hands on the given arguments only
Fill_Dropped(d, args) ==
    [i \in 1 .. Len(args) |-> V(d.params[i], args[i].v)] \o d.cxx

\* the native argument list: the converted arguments, then the declared
\* defaults of the parameters left out, then the native defaults
Fill(d, args) ==
    LET k == Len(d.params) - Len(args)
        nd == Len(d.defaults)
    IN [i \in 1 .. Len(args) |-> V(d.params[i], args[i].v)]
       \o SubSeq(d.defaults, nd - k + 1, nd)
       \o d.cxx

\* a dispatcher that calls the native operation a second time
Dispatch_Retry(defs, name, args) ==
    LET named == SelectSeq(defs, LAMBDA d : d.name = name)
        ok == SelectSeq(named, LAMBDA d : Accepts(d, args))
    IN IF named = <<>> THEN [status |-> "AttributeError", calls |-> <<>>]
       ELSE IF ok = <<>> THEN [status |-> "TypeError", calls |-> <<>>]
       ELSE [status |-> "call",
             calls |-> <<[fn |-> ok[1].native, args |-> Fill(ok[1], args)],
                         [fn |-> ok[1].native, args |-> Fill(ok[1], args)]>>]

\* one host call: the first overload of that name that accepts the arguments
\* is called once; none of that name is an attribute error, none accepting a
\* type error
Dispatch(defs, name, args) ==
    LET named == SelectSeq(defs, LAMBDA d : d.name = name)
        ok == SelectSeq(named, LAMBDA d : Accepts(d, args))
    IN IF named = <<>> THEN [status |-> "AttributeError", calls |-> <<>>]
       ELSE IF ok = <<>> THEN [status |-> "TypeError", calls |-> <<>>]
       ELSE [status |-> "call",
             calls |-> <<[fn |-> ok[1].native, args |-> Fill(ok[1], args)]>>]

\* class-level constants of the wrappers (def_property_readonly_static)
WrapperConsts(v) ==
    {"chip.OPEN_LOOKUP", "chip.OPEN_BY_PATH", "chip.OPEN_BY_NAME",
     "chip.OPEN_BY_LABEL", "chip.OPEN_BY_NUMBER",
     "line.DIRECTION_INPUT", "line.DIRECTION_OUTPUT",
     "line.ACTIVE_LOW", "line.ACTIVE_HIGH",
     "line_request.DIRECTION_AS_IS", "line_request.DIRECTION_INPUT",
     "line_request.DIRECTION_OUTPUT", "line_request.EVENT_FALLING_EDGE",
     "line_request.EVENT_RISING_EDGE", "line_request.EVENT_BOTH_EDGES",
     "line_event.RISING_EDGE", "line_event.FALLING_EDGE",
     "line_bulk.MAX_LINES"}
    \cup (IF v THEN {"line.BIAS_AS_IS", "line.BIAS_DISABLE",
                     "line.BIAS_PULL_UP", "line.BIAS_PULL_DOWN"}
          ELSE {})

\* class-level constants of gpiod.cpp (cls.attr(name) = int(...))
GpiodCppConsts ==
    {"chip.OPEN_LOOKUP", "chip.OPEN_BY_PATH", "chip.OPEN_BY_NAME",
     "chip.OPEN_BY_LABEL", "chip.OPEN_BY_NUMBER",
     "line_request.DIRECTION_AS_IS", "line_request.DIRECTION_INPUT",
     "line_request.DIRECTION_OUTPUT", "line_request.EVENT_FALLING_EDGE",
     "line_request.EVENT_RISING_EDGE", "line_request.EVENT_BOTH_EDGES",
     "line.DIRECTION_INPUT", "line.DIRECTION_OUTPUT",
     "line.ACTIVE_LOW", "line.ACTIVE_HIGH",
     "line_event.RISING_EDGE", "line_event.FALLING_EDGE"}

AllConsts == WrapperConsts(TRUE) \cup GpiodCppConsts

\* the class dictionaries after module initialisation: a read-only static
\* property whose getter returns the enumerator, or a plain attribute holding
\* the enumerator's value
ConstDefs(b, v) ==
    IF b = "gpiod_cpp"
    THEN [c \in GpiodCppConsts |-> [kind |-> "attr", val |-> NativeEnum[c]]]
    ELSE [c \in WrapperConsts(v) |-> [kind |-> "static_property", val |-> NativeEnum[c]]]

\* values the host tries to store in a constant
AssignVals == {0, 7}

Out(status, val) == [status |-> status, val |-> val]

NoHost == [kind |-> "none", name |-> "", args |-> <<>>]

\* a build of the module, nothing called yet
InitBind ==
    /\ binding \in Bindings
    /\ v15 \in BOOLEAN
    /\ classAttrs = ConstDefs(binding, v15)
    /\ writes = 0
    /\ host = NoHost
    /\ nativeCalls = <<>>
    /\ nativeOut = "none"
    /\ hostOut = Out("none", 0)

\* the bound surface is not in use
IdleBind ==
    /\ binding = "wrappers"
    /\ v15 = TRUE
    /\ classAttrs = ConstDefs("wrappers", TRUE)
    /\ writes = 0
    /\ host = NoHost
    /\ nativeCalls = <<>>
    /\ nativeOut = "none"
    /\ hostOut = Out("none", 0)

\* host: obj.name(*args); the native library returns or raises
HostCall ==
    /\ \E c \in HostCalls, out \in {"returned", "fault"} :
        LET r == Dispatch(Surface(binding, v15), c.name, c.args) IN
        /\ host' = [kind |-> "call", name |-> c.name, args |-> c.args]
        /\ nativeCalls' = r.calls
        /\ nativeOut' = IF r.status = "call" THEN out ELSE "none"
        /\ hostOut' = Out(IF r.status = "call" THEN out ELSE r.status, 0)
    /\ UNCHANGED <<binding, v15, classAttrs, writes>>
    /\ UNCHANGED <<varsF, varsI>>

\* host: cls.NAME
ReadConst ==
    /\ \E c \in AllConsts :
        /\ host' = [kind |-> "read", name |-> c, args |-> <<>>]
        /\ hostOut' =
            IF c \notin DOMAIN classAttrs THEN Out("AttributeError", 0)
            ELSE IF classAttrs[c].kind = "static_property"
                 THEN Out("value", NativeEnum[c])
                 ELSE Out("value", classAttrs[c].val)
    /\ nativeCalls' = <<>>
    /\ nativeOut' = "none"
    /\ UNCHANGED <<binding, v15, classAttrs, writes>>
    /\ UNCHANGED <<varsF, varsI>>

\* host: cls.NAME = x.  The metaclass hands an assignment to a static property
\* to the property, which has no setter; any other attribute is replaced.
AssignConst ==
    /\ \E c \in DOMAIN classAttrs, x \in AssignVals :
        /\ host' = [kind |-> "assign", name |-> c, args |-> <<V("int", x)>>]
        /\ IF classAttrs[c].kind = "static_property"
           THEN /\ hostOut' = Out("AttributeError", 0)
                /\ UNCHANGED <<classAttrs, writes>>
           ELSE /\ writes < MaxWrites
                /\ hostOut' = Out("assigned", 0)
                /\ classAttrs' = [classAttrs EXCEPT ![c] = [kind |-> "attr", val |-> x]]
                /\ writes' = writes + 1
    /\ nativeCalls' = <<>>
    /\ nativeOut' = "none"
    /\ UNCHANGED <<binding, v15>>
    /\ UNCHANGED <<varsF, varsI>>

NextCalls == HostCall

NextConsts == ReadConst \/ AssignConst

NextSurface == HostCall \/ ReadConst

\* the caster is not in use
IdleFlags ==
    /\ ulongBits = 64
    /\ src = Zero
    /\ errIn = FALSE
    /\ flags = NoBits
    /\ before = NoBits
    /\ loadRet = FALSE
    /\ value = NoBits
    /\ err = FALSE
    /\ steps = <<>>
    /\ output = Zero
    /\ op = "idle"

-----------------------------------------------------------------------------
\* Specifications

InitSpecFlags == InitFlags /\ IdleIter /\ IdleBind

InitSpecIter == IdleFlags /\ IdleIter /\ IdleBind

InitSpecCalls == IdleFlags /\ IdleIter /\ InitBind

InitSpecConsts == IdleFlags /\ IdleIter /\ InitBind

InitSpecSurface == IdleFlags /\ IdleIter /\ InitBind

\* one use of the line_request.flags property
SpecFlags == InitSpecFlags /\ [][NextFlags]_vars

\* the life of a line_bulk and its iterator
SpecIter == InitSpecIter /\ [][NextIter]_vars

\* host calls of the bound methods and constructors
SpecCalls == InitSpecCalls /\ [][NextCalls]_vars

\* host reads of and assignments to the class-level constants
SpecConsts == InitSpecConsts /\ [][NextConsts]_vars

\* host calls and constant reads against the surface of a build
SpecSurface == InitSpecSurface /\ [][NextSurface]_vars

-----------------------------------------------------------------------------
\* Properties of line_bulk iteration

\* C7: a line_bulk whose iterator exists is not destroyed, whatever references
\* the host has dropped, and no advance runs on a destroyed line_bulk; once the
\* iterator and every host reference are gone the line_bulk is destroyed.
C7_KeepAlive ==
    /\ iterAlive => bulkAlive
    /\ ~uaf
    /\ (~iterAlive /\ bulkRefs = 0) => ~bulkAlive

C7_Witness ==
    /\ iterAlive /\ bulkRefs = 0 /\ bulkAlive
    /\ afterDrop /\ stopped /\ ~invalid
    /\ Len(bulk) = MaxLen

\* C8: without mutation during the iteration, the lines yielded so far are the
\* first lines of the line_bulk in order, and when end of iteration is signalled
\* they are all of them: as many as size().
C8_OrderComplete ==
    (iterAlive /\ ~invalid)
        => /\ Len(yielded) <= Len(bulk)
           /\ yielded = SubSeq(bulk, 1, Len(yielded))
           /\ stopped => (yielded = bulk /\ Len(yielded) = Len(bulk))

C8_Witness ==
    /\ iterAlive /\ ~invalid /\ stopped
    /\ fromEmpty
    /\ yielded = bulk
    /\ Len(bulk) = MaxLen /\ bulk[1] # bulk[2]

\* C16: whatever appends and clears are interleaved with the iteration, every
\* advance that yields something yields a line the line_bulk holds at that
\* moment.
C16_SafeUnderMutation ==
    [][(iterAlive /\ bulkAlive /\ Len(yielded') = Len(yielded) + 1)
          => \E i \in DOMAIN bulk : bulk[i] = yielded'[Len(yielded')]]_vars

-----------------------------------------------------------------------------
\* Properties of the bound surface

ArgVals(args) == [i \in DOMAIN args |-> args[i].v]

\* the bound operations that declare a default for their last parameter: the
\* name, the number of parameters, the declared default
DeclaredDefaults ==
    {[name |-> "line.request", n |-> 2, type |-> "int", v |-> 0],
     [name |-> "chip.open", n |-> 2, type |-> "int", v |-> 1],
     [name |-> "chip.__init__", n |-> 2, type |-> "int", v |-> 1],
     [name |-> "line_bulk.request", n |-> 2, type |-> "ints", v |-> 0],
     [name |-> "line.set_config", n |-> 3, type |-> "int", v |-> 0],
     [name |-> "line.set_direction_output", n |-> 1, type |-> "int", v |-> 0]}

\* the last host operation was a call that reached the native library
Called == host.kind = "call" /\ hostOut.status \in {"returned", "fault"}

\* C9: a call that leaves out a parameter with a declared default makes one
\* native call, with the given arguments followed by the declared default, and
\* a call that passes the parameter makes one native call with the given
\* arguments: the two agree when the default is passed.  The host outcome is
\* the native outcome.
C9_DefaultSubstituted ==
    \A e \in DeclaredDefaults :
        (Called /\ host.name = e.name /\ Len(host.args) \in {e.n - 1, e.n})
            => /\ Len(nativeCalls) = 1
               /\ nativeCalls[1].fn = e.name
               /\ ArgVals(nativeCalls[1].args) =
                    IF Len(host.args) = e.n THEN ArgVals(host.args)
                    ELSE ArgVals(host.args) \o <<e.v>>
               /\ nativeCalls[1].args[e.n].t = e.type
               /\ hostOut.status = nativeOut

C9_Witness ==
    /\ Called /\ binding = "gpiod_cpp"
    /\ host.name = "chip.__init__" /\ Len(host.args) = 1
    /\ nativeCalls = <<[fn |-> "chip.__init__",
                        args |-> <<V("str", 1), V("int", 1)>>]>>

\* C10: in either binding, reading a class-level constant returns the native
\* enumerator and assigning to one is rejected.
C10_ConstReadOnly ==
    /\ (host.kind = "read" /\ host.name \in DOMAIN classAttrs)
            => hostOut = Out("value", NativeEnum[host.name])
    /\ host.kind = "assign" => hostOut.status = "AttributeError"

\* the entries of class line under '#if LIBGPIODCXX_VERSION_CODE >= (1, 5)'
GatedMethods ==
    {"line.bias", "line.set_config", "line.set_flags",
     "line.set_direction_input", "line.set_direction_output",
     "line.event_read_multiple", "line.update"}

GatedConsts ==
    {"line.BIAS_AS_IS", "line.BIAS_DISABLE", "line.BIAS_PULL_UP",
     "line.BIAS_PULL_DOWN"}

\* the entries of class line outside every '#if'
UngatedMethods ==
    {"line.__init__", "line.offset", "line.name", "line.consumer",
     "line.direction", "line.active_state", "line.is_used",
     "line.is_open_drain", "line.is_open_source", "line.request",
     "line.release", "line.is_requested", "line.get_value", "line.set_value",
     "line.event_wait", "line.event_read", "line.event_get_fd",
     "line.get_chip", "line.reset"}

UngatedConsts ==
    {"line.DIRECTION_INPUT", "line.DIRECTION_OUTPUT", "line.ACTIVE_LOW",
     "line.ACTIVE_HIGH"}

\* the build binds a method or constructor of that name
Bound(name) ==
    \E i \in DOMAIN Surface(binding, v15) : Surface(binding, v15)[i].name = name

\* the entry is part of the surface of the build
Present(name) == Bound(name) \/ name \in DOMAIN classAttrs

\* C11: the gated entries of class line are all present or all absent, in the
\* wrappers according to the library version alone (gpiod.cpp binds none of
\* them for any version); the ungated entries are present in every build; a
\* host call or read of an absent entry is an attribute error that reaches no
\* native call, and one of a present entry is not.
C11_AllOrNothing ==
    /\ \A a, b \in GatedMethods \cup GatedConsts : Present(a) <=> Present(b)
    /\ binding = "wrappers"
            => \A a \in GatedMethods \cup GatedConsts : Present(a) <=> v15
    /\ binding = "gpiod_cpp"
            => \A a \in GatedMethods \cup GatedConsts : ~Present(a)
    /\ \A a \in UngatedMethods \cup UngatedConsts : Present(a)
    /\ (host.kind \in {"call", "read"}
            /\ host.name \in GatedMethods \cup GatedConsts
            /\ ~(binding = "wrappers" /\ v15))
            => (hostOut.status = "AttributeError" /\ nativeCalls = <<>>)
    /\ (host.kind \in {"call", "read"}
            /\ host.name \in GatedMethods \cup GatedConsts
            /\ binding = "wrappers" /\ v15)
            => hostOut.status # "AttributeError"
    /\ (host.kind \in {"call", "read"}
            /\ host.name \in UngatedMethods \cup UngatedConsts)
            => hostOut.status # "AttributeError"

C11_Witness ==
    /\ binding = "wrappers" /\ ~v15
    /\ host.kind = "call" /\ host.name = "line.set_config"
    /\ Len(host.args) = 3
    /\ hostOut.status = "AttributeError" /\ nativeCalls = <<>>

\* the build binds host.name with parameters that the given arguments fit:
\* as many as declared, or fewer by the declared defaults, each of its type
ArgsConvert ==
    \E i \in DOMAIN Surface(binding, v15) :
        LET d == Surface(binding, v15)[i] IN
        /\ d.name = host.name
        /\ Len(host.args) <= Len(d.params)
        /\ Len(host.args) >= Len(d.params) - Len(d.defaults)
        /\ \A k \in 1 .. Len(host.args) :
            host.args[k].t = d.params[k]
                \/ (d.params[k] = "flags" /\ host.args[k].t = "int")

\* C12: a host call whose arguments convert makes exactly one call of the
\* native operation of the same name; a fault raised by it is the outcome of
\* the host call, and a return is a return.  A call whose arguments do not
\* convert, or of a name that is not bound, makes no native call.
C12_PassThrough ==
    host.kind = "call" =>
        IF ArgsConvert
        THEN /\ Len(nativeCalls) = 1
             /\ nativeCalls[1].fn = host.name
             /\ nativeOut \in {"returned", "fault"}
             /\ hostOut.status = nativeOut
        ELSE /\ nativeCalls = <<>>
             /\ hostOut.status \in {"TypeError", "AttributeError"}

C12_Witness ==
    /\ host.kind = "call" /\ host.name = "chip.open" /\ Len(host.args) = 2
    /\ nativeOut = "fault" /\ hostOut.status = "fault"
    /\ Len(nativeCalls) = 1

-----------------------------------------------------------------------------
\* Properties of the bitset caster

\* the setter has run on src
Loaded == op \in {"set", "setget"}

\* the setter has run on src and the getter has read the result back
ReadBack == op = "setget"

Sentinel == HostInt(FALSE, AllOnes(BitsetWidth))

\* C1: every integer x in [0, 2^32 - 1] loads successfully and reading the
\* flags back through cast yields x again.
C1_RoundTrip ==
    (ReadBack /\ InRange(src) /\ ~errIn) => (loadRet /\ output = src)

\* C2: loading 0xFFFFFFFF with no error reported by the integer-parse step
\* succeeds and sets all 32 bits.
C2_SentinelAccepted ==
    (Loaded /\ src = Sentinel /\ ~err) => (loadRet /\ flags = AllBits)

\* C3: every integer outside [0, 2^32 - 1] is rejected by load and no flag set
\* reaches the native object.
C3_RangeRejected ==
    (Loaded /\ src.kind = "int" /\ ~InRange(src) /\ ~errIn)
        => (~loadRet /\ flags = before)

\* C4: a value PyNumber_Long cannot coerce makes load fail after that one step:
\* no integer parse, no flag set produced, the native flags left as they were.
C4_NonNumericRejected ==
    (Loaded /\ src.kind \in {"text", "none"})
        => /\ ~loadRet
           /\ steps = <<"PyNumber_Long">>
           /\ value = NoBits
           /\ flags = before

C4_Witness ==
    Loaded /\ src.kind = "text" /\ before = AllBits /\ ~loadRet

\* C5: for each i in [0, 32), loading 2^i succeeds and sets element i and no
\* other element.
C5_BitCorrespondence ==
    \A i \in BitPos :
        (Loaded /\ src = HostInt(FALSE, PowerOfTwo(i)))
            => (loadRet /\ \A j \in BitPos : flags[j] <=> (j = i))

C5_Witness ==
    Loaded /\ src = HostInt(FALSE, PowerOfTwo(BitsetWidth - 1)) /\ loadRet
        /\ flags[BitsetWidth - 1] /\ before = AllBits

\* C6: cast never fails and returns an integer in [0, 2^32 - 1] whose bit i
\* equals element i of the flag set, for every i in [0, 32).
C6_CastBitExact ==
    (op \in {"get", "setget"})
        => /\ InRange(output)
           /\ output.bits = Normalize(output.bits)
           /\ \A i \in BitPos : (BitOf(output.bits, i) = 1) <=> flags[i]

C6_Witness ==
    op = "setget" /\ flags[BitsetWidth - 1] /\ ~flags[0] /\ loadRet
        /\ output.bits # <<>>

\* src is an integer that needs more than 32 bits and fits a 64-bit unsigned long
Wide == src.kind = "int" /\ ~src.neg
        /\ Len(src.bits) > BitsetWidth /\ Len(src.bits) <= ulongBits

\* C13: on a host with a 64-bit unsigned long, every integer in [2^32, 2^64 - 1]
\* is handled alike: load succeeds with the low 32 bits of the integer.
C13_WideTruncated ==
    (Loaded /\ Wide /\ ~errIn)
        => /\ loadRet
           /\ \A i \in BitPos : flags[i] <=> (src.bits[i + 1] = 1)

\* C14: when load returns success and the error indicator was clear on entry,
\* the error indicator is clear.
C14_SuccessIsClean ==
    (Loaded /\ ~errIn /\ loadRet) => ~err

\* C15: the result of load and the flag set it produces do not depend on
\* whether the error indicator was already set on entry.
C15_StaleErrorIndependent ==
    Loaded =>
        LET other == load(src, ~errIn, ulongBits) IN
        /\ other.ret = loadRet
        /\ other.ret => other.value = value

====
